---- MODULE Spec2Model ----
(***************************************************************************)
(* A model of the relevance state (ArtSearch), the retrieval functions     *)
(* (SearchEngine / METASearch) and the refinement loop                     *)
(* (ArtSearch.update_latent) of TrainingTheArchive.                        *)
(*                                                                         *)
(* Conventions.  Python rows and list positions are 0-based, TLA+          *)
(* sequences are 1-based: Python row k of a tensor is element k+1 of the   *)
(* sequence that models it, and the group at Python list position p-1 is   *)
(* groups[p].  A boolean row over the items is the set of item ids where   *)
(* it is True.  Every row carries a tag `own` that records for which       *)
(* Group object the row was created or last written (0 for the canvas      *)
(* row); the program has no such field, identity is positional there, and  *)
(* the tag only lets properties say whose labels a row holds.              *)
(*                                                                         *)
(* Specifications.  SpecApi: the calls of ArtSearch, one call per step.    *)
(* SpecSearch: the retrieval functions over drawn tables, masks, queries.  *)
(* Spec: the caller thread, one line per step, against update_latent, one  *)
(* shared read or write per step.  SpecRefresh: searches and               *)
(* content_change against update_latent for one labelled group.            *)
(* SpecCanvas: the handlers of the window (src/gui), one handler per step. *)
(* SpecSession: the handlers that rename, move and load against            *)
(* update_latent.  SpecTraining: dragging images in and out of a group     *)
(* and searches against update_latent.                                     *)
(***************************************************************************)
EXTENDS Integers, Sequences, FiniteSets, TLC

\* ------------------------------------------------------------------ bounds
NumItems == 2
MaxGroups == 2

Items == 0..(NumItems - 1)
Gids == 1..MaxGroups
CANVAS == 0

VARIABLES
    groups,        \* ArtSearch.groups: list of Group objects (their ids)
    positive,      \* ArtSearch.positive: rows of [own, val]
    negative,      \* ArtSearch.negative
    data_changed,  \* SearchEngine.data_changed of the CLIP engine
    nextGid,       \* id of the next Group object the caller constructs
    last,          \* the caller operation that completed last, with its outcome
    group_name,    \* Group.group_name.text of every Group object
    encodings,     \* SearchEngine.encodings: the frozen table, item -> vector
    embeddings,    \* SearchEngine.embeddings: the published refined table
    use_embedding, \* SearchEngine.use_embedding
    params,        \* the parameters of LocalSplitMLP (mlp_image, mlp_text)
    center,        \* LocalSplitMLP.center: list of batches of vectors
    result,        \* what the last search call returned
    cpc,           \* the caller thread: the line it is about to execute
    carg,          \* the caller thread: the call in progress and its locals
    lpc,           \* the update_latent thread: the line it is about to execute
    group_names,   \* update_latent: the local group_names (line 149)
    vpos,          \* update_latent: the view self.positive[:len(self.groups) + 1]
    vneg,          \* update_latent: the view self.negative[:len(self.groups) + 1]
    li,            \* update_group_embeddings / optimize_embedding: the loop index
    pos_example,   \* SearchEngine.pos_example
    neg_example,   \* SearchEngine.neg_example
    group_embeddings, \* SearchEngine.group_embeddings
    scene,         \* CanvasScene: where every image item is, and the Group items
    box            \* Box: the image widgets it shows and its dict self.images

relVars == <<groups, positive, negative, data_changed, nextGid, last, group_name>>
engineVars == <<encodings, embeddings, use_embedding, params, center>>
callerVars == <<cpc, carg>>
loopVars == <<lpc, group_names, vpos, vneg, li, pos_example, neg_example, group_embeddings>>
threadVars == <<callerVars, loopVars>>
guiVars == <<scene, box>>
vars == <<groups, positive, negative, data_changed, nextGid, last, group_name,
          encodings, embeddings, use_embedding, params, center, result,
          cpc, carg, lpc, group_names, vpos, vneg, li,
          pos_example, neg_example, group_embeddings, scene, box>>

\* ------------------------------------------------------- relevance state
Row(o, s) == [own |-> o, val |-> s]

\* torch.zeros(1, len(self.paths), dtype=torch.bool)
ZeroTensor == <<Row(CANVAS, {})>>

\* the three fields of ArtSearch the operations work on, as one value
RS == [groups |-> groups, positive |-> positive, negative |-> negative]

Registered(gs, g) == \E p \in 1..Len(gs) : gs[p] = g

\* list.index(group): the first position holding group (1-based here)
IndexOf(gs, g) == CHOOSE p \in 1..Len(gs) : gs[p] = g /\ \A q \in 1..(p - 1) : gs[q] # g

\* list.remove(group): drops the first occurrence
ListRemove(gs, g) ==
    LET p == IndexOf(gs, g)
    IN  [q \in 1..(Len(gs) - 1) |-> IF q < p THEN gs[q] ELSE gs[q + 1]]

\* remove_group.delete(arr, ind, 0): keeps the rows whose index is not ind
\* (skip = [i for i in range(arr.shape[0]) if i != ind]); k is the 1-based
\* position of Python row ind.  An ind past the last row keeps every row.
delete(arr, k) ==
    IF k \in 1..Len(arr)
    THEN [q \in 1..(Len(arr) - 1) |-> IF q < k THEN arr[q] ELSE arr[q + 1]]
    ELSE arr

\* Python item index: a negative id counts from the end of the row
PyIndex(id) == IF id < 0 THEN id + NumItems ELSE id
InRange(id) == id >= -NumItems /\ id < NumItems

\* row[ids] = True
SetTrue(row, ids) == [row EXCEPT !.val = row.val \cup {PyIndex(id) : id \in ids}]
\* row[id] = False
SetFalse(row, id) == [row EXCEPT !.val = row.val \ {PyIndex(id)}]

\* Group.getName (Group.py, lines 243-249)
getName(g) == group_name[g]

\* --- remove_group, line by line
\* 124-125: index = self.groups.index(group) + 1; self.groups.remove(group)
rg_remove(rs, g) == [rs EXCEPT !.groups = ListRemove(rs.groups, g)]
\* (mutant of rg_positive: the canvas offset is lost, the row before is deleted)
rg_positive_no_offset(rs, index) == [rs EXCEPT !.positive = delete(rs.positive, index)]
\* 132: self.positive = delete(self.positive, index, 0)
rg_positive(rs, index) == [rs EXCEPT !.positive = delete(rs.positive, index + 1)]
\* 133: self.negative = delete(self.negative, index, 0)
rg_negative(rs, index) == [rs EXCEPT !.negative = delete(rs.negative, index + 1)]

remove_group(rs, g) ==
    IF ~Registered(rs.groups, g)
    THEN [rs |-> rs, err |-> "ValueError"]
    ELSE LET index == (IndexOf(rs.groups, g) - 1) + 1
         IN  [rs |-> rg_negative(rg_positive(rg_remove(rs, g), index), index), err |-> ""]

\* --- create_group, line by line
\* 136: self.groups.append(group)
cg_append(rs, g) == [rs EXCEPT !.groups = Append(rs.groups, g)]
\* 137: if len(self.groups) >= len(self.positive)
cg_cond(rs) == Len(rs.groups) >= Len(rs.positive)
\* 138: self.positive = torch.cat([self.positive, torch.zeros_like(self.positive[:1])])
cg_positive(rs, g) == [rs EXCEPT !.positive = Append(rs.positive, Row(g, {}))]
\* 139: self.negative = torch.cat([self.negative, self.negative[:1].clone()])
cg_negative(rs, g) == [rs EXCEPT !.negative = Append(rs.negative, Row(g, rs.negative[1].val))]

create_group(rs, g) ==
    LET r1 == cg_append(rs, g)
    IN  IF cg_cond(r1) THEN cg_negative(cg_positive(r1, g), g) ELSE r1

\* --- updateGroup, line by line; p is the 1-based position of the group in
\* self.groups, so that Python row index + 1 is element p + 1.
\* 176: self.positive[index + 1] = torch.zeros_like(self.positive[index])
ug_clear_pos(rs, g, p) == [rs EXCEPT !.positive[p + 1] = Row(g, {})]
\* 177: self.positive[index + 1][positive] = True
ug_set_pos(rs, g, p, pos) == [rs EXCEPT !.positive[p + 1] = SetTrue(rs.positive[p + 1], pos)]
\* 179: self.negative[index + 1] = torch.zeros_like(self.negative[index])
ug_clear_neg(rs, g, p) == [rs EXCEPT !.negative[p + 1] = Row(g, {})]
\* 180: self.negative[index + 1][negative] = True
ug_set_neg(rs, g, p, neg) == [rs EXCEPT !.negative[p + 1] = SetTrue(rs.negative[p + 1], neg)]

updateGroup(rs, g, pos, neg) ==
    IF ~Registered(rs.groups, g)
    THEN [rs |-> rs, err |-> "ValueError"]                      \* line 174
    ELSE LET p == IndexOf(rs.groups, g)
         IN  IF p + 1 > Len(rs.positive)
             THEN [rs |-> rs, err |-> "IndexError"]             \* line 176
             ELSE LET r1 == ug_set_pos(ug_clear_pos(rs, g, p), g, p, pos)
                  IN  IF p + 1 > Len(r1.negative)
                      THEN [rs |-> r1, err |-> "IndexError"]    \* line 179
                      ELSE [rs |-> ug_set_neg(ug_clear_neg(r1, g, p), g, p, neg), err |-> ""]

\* --- setImageNeutral / setImageNegative / setImagePositive (lines 182-192)
setImageNeutral(rs, id) ==
    [rs EXCEPT !.positive[1] = SetFalse(rs.positive[1], id),
               !.negative[1] = SetFalse(rs.negative[1], id)]

setImageNegative(rs, id) ==
    [rs EXCEPT !.positive[1] = SetFalse(rs.positive[1], id),
               !.negative[1] = SetTrue(rs.negative[1], {id})]

\* (mutant of setImagePositive: line 192 is left out)
setImagePositive_only(rs, id) ==
    [rs EXCEPT !.positive[1] = SetTrue(rs.positive[1], {id})]

setImagePositive(rs, id) ==
    [rs EXCEPT !.positive[1] = SetTrue(rs.positive[1], {id}),
               !.negative[1] = SetFalse(rs.negative[1], id)]

\* --- reset (lines 203-205): self.groups is not touched
reset(rs) == [rs EXCEPT !.positive = ZeroTensor, !.negative = ZeroTensor]

\* (mutant of serialize: the ids set in any row are written)
serialize_all_rows(rs) ==
    [positive |-> UNION {rs.positive[k].val : k \in 1..Len(rs.positive)},
     negative |-> UNION {rs.negative[k].val : k \in 1..Len(rs.negative)}]

\* --- serialize (lines 207-211): the ids set in row 0 of each tensor
serialize(rs) == [positive |-> rs.positive[1].val, negative |-> rs.negative[1].val]

\* --- deserialize (lines 213-222)
deserialize(rs, data) ==
    [groups |-> <<>>,
     positive |-> <<SetTrue(Row(CANVAS, {}), data.positive)>>,
     negative |-> <<SetTrue(Row(CANVAS, {}), data.negative)>>]

\* --- calls that name an id no row has.  row[id] with id >= N or id < -N
\* raises IndexError; an id in -N..-1 is taken from the end of the row and
\* raises nothing.
BadIds(ids) == {id \in ids : ~InRange(id)}

\* updateGroup with a registered group whose rows exist and an id out of
\* range in a list: the row was zeroed (176, 179) before the indexed write
\* (177, 180) raises; which of the good ids of that list were written before
\* the bad one was met is not fixed.  The states the call can leave.
updateGroup_raises(rs, g, pos, neg) ==
    LET p == IndexOf(rs.groups, g)
        r1 == ug_clear_pos(rs, g, p)
    IN  IF BadIds(pos) # {}
        THEN {ug_set_pos(r1, g, p, w) : w \in SUBSET (pos \ BadIds(pos))}
        ELSE LET r2 == ug_clear_neg(ug_set_pos(r1, g, p, pos), g, p)
             IN  {ug_set_neg(r2, g, p, w) : w \in SUBSET (neg \ BadIds(neg))}

\* deserialize of lists with an id out of range: lines 214-217 have run when
\* the loop of line 219 or of line 221 raises, and the ids listed before the
\* bad one are set.  The states the call can leave.
deserialize_raises(rs, data) ==
    IF BadIds(data.positive) # {}
    THEN {deserialize(rs, [positive |-> w, negative |-> {}]) :
              w \in SUBSET (data.positive \ BadIds(data.positive))}
    ELSE {deserialize(rs, [positive |-> data.positive, negative |-> w]) :
              w \in SUBSET (data.negative \ BadIds(data.negative))}

\* ------------------------------------------------- vectors and encoders
\* Unit vectors of the embedding space (dimension 2, integer coordinates):
\* every cosine similarity is -1, 0 or 1.
Vecs == {<<1, 0>>, <<0, 1>>, <<-1, 0>>, <<0, -1>>}
Dot(a, b) == a[1] * b[1] + a[2] * b[2]
Scale(v, c) == <<v[1] * c, v[2] * c>>

\* The frozen text encoder (tokenize, encoder.encode_text, fn.normalize): a
\* fixed map from the strings the session uses to unit vectors.
Texts == {"New Group", "a", "b", "c"}
encode_text(text) ==
    CASE text = "New Group" -> <<1, 0>>
      [] text = "a" -> <<0, 1>>
      [] text = "b" -> <<-1, 0>>
      [] OTHER -> <<0, -1>>

\* A query image is given by what the frozen image encoder returns for it.
Images == Vecs
encode_image(image) == image

\* ----------------------------------------------- LocalSplitMLP (Embedding.py)
Params == {"identity", "trained", "nan"}
NaNVec == <<0, 0>>

\* (mutant of Mlp: the layers keep the initialisation nn.Linear gives them,
\* lines 172-173 and 182-183 are left out)
Mlp_default_init(par, x) == IF par = "nan" THEN NaNVec ELSE <<-x[2], x[1]>>

\* nn.Linear of mlp_image / mlp_text followed by fn.normalize: the identity
\* as constructed (weight = eye, bias = 0); a trained map is modelled by one
\* fixed non-identity isometry, the quarter turn.
Mlp(par, x) ==
    CASE par = "identity" -> x
      [] par = "trained" -> <<-x[2], x[1]>>
      [] OTHER -> NaNVec

\* exp(-10 * (1 - cos)) as a level: 3 is exactly 1 (cos = 1), 2 and 1 are the
\* tiny positive gates of cos = 0 and cos = -1, 0 is the zero tensor.
GateLevel(cos) == cos + 2

SetMax(S) == CHOOSE m \in S : \A x \in S : x <= m

\* torch.cat(self.center): the rows of all registered batches
CenterRows(cen) == UNION {cen[j] : j \in 1..Len(cen)}

\* weight(inp): one scalar for the whole batch inp
weight(cen, batch) ==
    IF Len(cen) > 0
    THEN SetMax({GateLevel(Dot(a, b)) : a \in batch, b \in CenterRows(cen)})
    ELSE 0

\* out = weight * out + (1 - weight) * inp, normalized: a gate of exactly 1
\* gives the mapped vector; a gate of at most exp(-10) is taken as passing the
\* input through.
Blend(w, out, x) == IF w = 3 THEN out ELSE x

\* LocalSplitMLP.encode_image on a batch given as a function index -> vector
mlp_encode(par, cen, inp) ==
    LET w == weight(cen, {inp[i] : i \in DOMAIN inp})
    IN  [i \in DOMAIN inp |-> Blend(w, Mlp(par, inp[i]), inp[i])]

\* Embedder.embed_text / embed_image: encode, then refine the one-row batch
embed_text(par, cen, text) == mlp_encode(par, cen, <<encode_text(text)>>)[1]
embed_image(par, cen, image) == mlp_encode(par, cen, <<encode_image(image)>>)[1]

\* Embedder.refine_image_embedding(self.encodings)
refine_image_embedding(par, cen, enc) == mlp_encode(par, cen, enc)

\* ------------------------------------------------ SearchEngine (retrieval)
\* valid.unsqueeze(1) as a 0/1 factor: a mask is the set of ids where it is True
MaskFactor(valid, i) == IF i \in valid THEN 1 ELSE 0

\* (table * valid.unsqueeze(1)) @ features.T, column 0
similarity(table, valid, features) ==
    [i \in Items |-> Dot(Scale(table[i], MaskFactor(valid, i)), features)]

Min(a, b) == IF a < b THEN a ELSE b

\* tensor.topk(k): the indices of k largest entries, largest first.  The order
\* among equal entries is not specified by torch: every order is an outcome.
\* k larger than the number of rows raises (no outcome).
topk(sim, k) ==
    {ids \in [1..k -> Items] :
        /\ \A m, n \in 1..k : m < n => (ids[m] # ids[n] /\ sim[ids[m]] >= sim[ids[n]])
        /\ \A i \in Items : (\A m \in 1..k : ids[m] # i) => \A m \in 1..k : sim[ids[m]] >= sim[i]}

\* the table a search compares with, without its refresh stamps
TableVecs(tbl) == [i \in Items |-> tbl[i].v]

\* the refresh cycles whose rows a search multiplies by the mask: the rows of
\* the tensor self.embeddings names at the one moment the attribute is read
TableRead == IF use_embedding THEN {embeddings[i].ep : i \in Items} ELSE {}

\* search_by_text (lines 34-48): the possible results
search_by_text(valid, text, k) ==
    LET kk == Min(k, Cardinality(valid))
        sim == IF use_embedding
               THEN similarity(TableVecs(embeddings), valid, embed_text(params, center, text))
               ELSE similarity(encodings, valid, encode_text(text))
    IN  topk(sim, kk)

\* search_by_image (lines 50-62): the possible results
search_by_image(valid, image, k) ==
    LET sim == IF use_embedding
               THEN similarity(TableVecs(embeddings), valid, embed_image(params, center, image))
               ELSE similarity(encodings, valid, encode_image(image))
    IN  topk(sim, k)

\* ------------------------------------------------ METASearch / restrict_search
\* The metadata table (the csv read in init_search_engines): one row per item
\* and one row that belongs to no encoding (encoding_id -1).
MetaKeys == {"key1", "key2"}
MetaTable ==
    {[encoding_id |-> i,
      key1 |-> IF i = 0 THEN "x" ELSE "y",
      key2 |-> IF i < NumItems - 1 THEN "x" ELSE "y"] : i \in Items}
    \cup {[encoding_id |-> -1, key1 |-> "x", key2 |-> "y"]}

\* what the user can type into a filter line edit; "" is an inactive filter
FilterValues == {"", "x", "y", "z"}
Filters == [MetaKeys -> FilterValues]

\* METASearch.search_by_text (lines 94-98)
meta_search(key, value) ==
    {r.encoding_id : r \in {t \in MetaTable : t[key] = value}} \ {-1}

\* restrict_search (lines 87-107).  The index tensor built from an empty
\* intersection is a float tensor, and indexing with it raises.
restrict_search(rs, filters) ==
    LET active == {key \in MetaKeys : filters[key] # ""}
        search_results == {meta_search(key, filters[key]) : key \in active} \ {{}}
        constraints == {i \in Items : \A res \in search_results : i \in res}
        free == Items \ (rs.positive[1].val \cup rs.negative[1].val)
    IN  IF search_results # {}
        THEN IF constraints = {}
             THEN [err |-> "IndexError", valid |-> {}]
             ELSE [err |-> "", valid |-> constraints \cap free]
        ELSE [err |-> "", valid |-> free]

\* ------------------------------------------ the caller, one call per step
\* What the caller did last: the call, its arguments, whether it raised, and
\* the number of registered groups and of rows before the call.
Done(op, g, a, b, err) ==
    [op |-> op, g |-> g, a |-> a, b |-> b, err |-> err,
     p |-> IF Registered(groups, g) THEN IndexOf(groups, g) ELSE 0,
     n |-> Len(groups), rows |-> Len(positive)]

SetRS(rs) ==
    /\ groups' = rs.groups
    /\ positive' = rs.positive
    /\ negative' = rs.negative

\* Label sets a caller passes to updateGroup: ids of items, negatives disjoint
\* from positives (CanvasScene.updateGroups, lines 433-434).
LabelPairs == {pq \in (SUBSET Items) \X (SUBSET Items) : pq[1] \cap pq[2] = {}}

\* The ids a caller can name: the items, the id -1 of a custom image
\* (CanvasScene.addCustomImage, line 265) and an id past the last item.
IdArgs == Items \cup {-1, NumItems}

\* Lists a caller passes to updateGroup: lists of item ids, and lists where
\* one id is not an item id, alone or next to one item id.
ArgPairs ==
    {pq \in (SUBSET IdArgs) \X (SUBSET IdArgs) :
        /\ pq[1] \cap pq[2] = {}
        /\ \/ pq[1] \cup pq[2] \subseteq Items
           \/ /\ Cardinality((pq[1] \cup pq[2]) \ Items) = 1
              /\ Cardinality((pq[1] \cup pq[2]) \cap Items) <= 1}

\* Lists a file holds: what serialize wrote, or lists with an id past the
\* last item of the archive the file is opened with.
FilePairs == {pq \in ArgPairs : -1 \notin pq[1] \cup pq[2]}

\* What CanvasScene.updateGroups (lines 423-439) passes for a group in the
\* two-thread specification: image 0 lies in the group, the other images of
\* the archive lie on the canvas outside it.
UpdatePairs == {<<{0}, Items \ {0}>>}

InitRel ==
    /\ groups = <<>>
    /\ positive = ZeroTensor
    /\ negative = ZeroTensor
    /\ data_changed = TRUE
    /\ nextGid = 1
    /\ last = [op |-> "init", g |-> 0, a |-> {}, b |-> {}, err |-> "", p |-> 0, n |-> 0, rows |-> 1]
    /\ group_name = [g \in Gids |-> "New Group"]

ApiCreateGroup ==
    /\ nextGid <= MaxGroups
    /\ SetRS(create_group(RS, nextGid))
    /\ nextGid' = nextGid + 1
    /\ last' = Done("create_group", nextGid, {}, {}, "")
    /\ UNCHANGED <<engineVars, result, threadVars, guiVars>>
    /\ UNCHANGED <<data_changed, group_name>>

ApiRemoveGroup ==
    \E g \in 1..(nextGid - 1) :
        LET r == remove_group(RS, g)
        IN  /\ SetRS(r.rs)
            /\ last' = Done("remove_group", g, {}, {}, r.err)
            /\ UNCHANGED <<engineVars, result, threadVars, guiVars>>
            /\ UNCHANGED <<data_changed, nextGid, group_name>>

ApiUpdateGroup ==
    \E g \in 1..(nextGid - 1), pq \in ArgPairs :
        /\ IF /\ Registered(groups, g)
              /\ IndexOf(groups, g) + 1 <= Len(positive)
              /\ \/ BadIds(pq[1]) # {}
                 \/ (IndexOf(groups, g) + 1 <= Len(negative) /\ BadIds(pq[2]) # {})
           THEN /\ \E rs \in updateGroup_raises(RS, g, pq[1], pq[2]) : SetRS(rs)
                /\ last' = Done("updateGroup", g, pq[1], pq[2], "IndexError")
           ELSE LET r == updateGroup(RS, g, pq[1], pq[2])
                IN  /\ SetRS(r.rs)
                    /\ last' = Done("updateGroup", g, pq[1], pq[2], r.err)
        /\ UNCHANGED <<engineVars, result, threadVars, guiVars>>
        /\ UNCHANGED <<data_changed, nextGid, group_name>>

\* the first statement of each of the three calls raises for an id out of range
ApiSetImagePositive ==
    \E id \in IdArgs :
        /\ IF InRange(id)
           THEN /\ SetRS(setImagePositive(RS, id))
                /\ last' = Done("setImagePositive", 0, {id}, {}, "")
           ELSE /\ UNCHANGED <<groups, positive, negative>>
                /\ last' = Done("setImagePositive", 0, {id}, {}, "IndexError")
        /\ UNCHANGED <<engineVars, result, threadVars, guiVars>>
        /\ UNCHANGED <<data_changed, nextGid, group_name>>

ApiSetImageNegative ==
    \E id \in IdArgs :
        /\ IF InRange(id)
           THEN /\ SetRS(setImageNegative(RS, id))
                /\ last' = Done("setImageNegative", 0, {id}, {}, "")
           ELSE /\ UNCHANGED <<groups, positive, negative>>
                /\ last' = Done("setImageNegative", 0, {id}, {}, "IndexError")
        /\ UNCHANGED <<engineVars, result, threadVars, guiVars>>
        /\ UNCHANGED <<data_changed, nextGid, group_name>>

ApiSetImageNeutral ==
    \E id \in IdArgs :
        /\ IF InRange(id)
           THEN /\ SetRS(setImageNeutral(RS, id))
                /\ last' = Done("setImageNeutral", 0, {id}, {}, "")
           ELSE /\ UNCHANGED <<groups, positive, negative>>
                /\ last' = Done("setImageNeutral", 0, {id}, {}, "IndexError")
        /\ UNCHANGED <<engineVars, result, threadVars, guiVars>>
        /\ UNCHANGED <<data_changed, nextGid, group_name>>

\* content_change (lines 82-85): sets the flag of the one SearchEngine
ApiContentChange ==
    /\ data_changed' = TRUE
    /\ last' = Done("content_change", 0, {}, {}, "")
    /\ UNCHANGED <<engineVars, result, threadVars, guiVars>>
    /\ UNCHANGED <<groups, positive, negative, nextGid, group_name>>

ApiReset ==
    /\ SetRS(reset(RS))
    /\ last' = Done("reset", 0, {}, {}, "")
    /\ UNCHANGED <<engineVars, result, threadVars, guiVars>>
    /\ UNCHANGED <<data_changed, nextGid, group_name>>

\* deserialize of the lists of a file or of a timestamp
\* (MainWindow.openFile, History.restoreTimeStamp)
ApiDeserialize ==
    \E pq \in FilePairs :
        LET data == [positive |-> pq[1], negative |-> pq[2]]
        IN  /\ IF BadIds(pq[1] \cup pq[2]) # {}
               THEN /\ \E rs \in deserialize_raises(RS, data) : SetRS(rs)
                    /\ last' = Done("deserialize", 0, pq[1], pq[2], "IndexError")
               ELSE /\ SetRS(deserialize(RS, data))
                    /\ last' = Done("deserialize", 0, pq[1], pq[2], "")
            /\ UNCHANGED <<engineVars, result, threadVars, guiVars>>
            /\ UNCHANGED <<data_changed, nextGid, group_name>>

\* History.createTimeStamp (line 59) and then restoreTimeStamp (line 101) of
\* that timestamp: deserialize of what serialize has just returned
ApiRestore ==
    /\ SetRS(deserialize(RS, serialize(RS)))
    /\ last' = Done("restore", 0, serialize(RS).positive, serialize(RS).negative, "")
    /\ UNCHANGED <<engineVars, result, threadVars, guiVars>>
    /\ UNCHANGED <<data_changed, nextGid, group_name>>

NextApi ==
    \/ ApiCreateGroup
    \/ ApiRemoveGroup
    \/ ApiUpdateGroup
    \/ ApiSetImagePositive
    \/ ApiSetImageNegative
    \/ ApiSetImageNeutral
    \/ ApiContentChange
    \/ ApiReset
    \/ ApiDeserialize
    \/ ApiRestore

\* the engine as SearchEngine.__init__ leaves it (lines 9-32)
Stamp(tbl, ep) == [i \in Items |-> [v |-> tbl[i], ep |-> ep]]

InitEngine(enc) ==
    /\ encodings = enc
    /\ embeddings = Stamp(enc, 0)
    /\ use_embedding = TRUE
    /\ params = "identity"
    /\ center = <<>>

\* A view of a tensor (a slice shares the storage of the tensor object it was
\* taken from): while the attribute still names that object the view shows
\* its current rows (live); once the caller has bound the attribute to a new
\* tensor, the view keeps the rows of the old object (rows).
NoView == [live |-> FALSE, len |-> 0, rows |-> <<>>]
NoArg == [op |-> "", g |-> 0, p |-> 0, pos |-> {}, neg |-> {}]

\* both threads before their first step (thread(self.update_latent), line 66)
\* The canvas and the box.  An image item of the scene is known by its id; the
\* scene records where it lies: on the canvas outside every group (CANVAS) or
\* inside the rectangle of a Group item (its id).  A custom image has id -1
\* (CanvasScene.addCustomImage).
CUSTOM == -1
CanvasIds == Items \cup {CUSTOM}
NoImages == [i \in {} |-> CANVAS]
NoScene == [images |-> NoImages, groups |-> {}]
\* Box.__init__: no widget, self.images = {}
NoBox == [shown |-> {}, images |-> {}]

InitGui ==
    /\ scene = NoScene
    /\ box = NoBox

InitThreads ==
    /\ cpc = "idle"
    /\ carg = NoArg
    /\ lpc = "L148"
    /\ group_names = <<>>
    /\ vpos = NoView
    /\ vneg = NoView
    /\ li = 0
    /\ pos_example = <<>>
    /\ neg_example = <<>>
    /\ group_embeddings = <<>>

NoResult ==
    [op |-> "none", valid |-> {}, k |-> 0, text |-> "", image |-> <<0, 0>>,
     filters |-> [key \in MetaKeys |-> ""], ids |-> <<>>, err |-> "", eps |-> {}]

\* the encodings file of the sequential specification: any table works
ApiEncodings == [i \in Items |-> <<1, 0>>]

InitApi ==
    /\ InitRel
    /\ InitEngine(ApiEncodings)
    /\ InitThreads
    /\ InitGui
    /\ result = NoResult

SpecApi == InitApi /\ [][NextApi]_vars

\* ------------------------------------------------------------ claims C6, C7
\* The group at list position p with its label sets; a group whose row does
\* not exist has none ({}), otherwise the one-element set of its row.
GroupAt(gs, posi, nega, p) ==
    [g |-> gs[p],
     pos |-> IF p + 1 <= Len(posi) THEN {posi[p + 1].val} ELSE {},
     neg |-> IF p + 1 <= Len(nega) THEN {nega[p + 1].val} ELSE {}]

\* C6: remove_group of the group at index g leaves one user group less; each
\* group after g moves down by one index with its name and label sets, the
\* groups before g and row 0 are unchanged.
C6_RemoveShiftsDown ==
    [][(last'.op = "remove_group" /\ last'.err = "") =>
        LET k == last'.p
        IN  /\ Len(groups') = Len(groups) - 1
            /\ \A p \in 1..Len(groups') :
                   GroupAt(groups', positive', negative', p) =
                       IF p < k THEN GroupAt(groups, positive, negative, p)
                                ELSE GroupAt(groups, positive, negative, p + 1)
            /\ positive'[1] = positive[1]
            /\ negative'[1] = negative[1]
            /\ (Len(positive) = Len(groups) + 1 => Len(positive') = Len(groups') + 1)
            /\ Len(negative') = Len(positive')]_vars

\* a group with labels has just moved down into the index of a removed group
C6_Witness ==
    /\ last.op = "remove_group"
    /\ last.err = ""
    /\ last.p < last.n
    /\ Len(positive) = Len(groups) + 1
    /\ positive[last.p + 1].val # {}
    /\ negative[last.p + 1].val # {}

\* C7: create_group appends one group at index (number of user groups + 1)
\* with an empty positive and an empty negative set, whatever group 0 holds,
\* and leaves the rows of the existing groups unchanged.
C7_CreateAppendsEmptyPair ==
    [][last'.op = "create_group" =>
        /\ groups' = Append(groups, last'.g)
        /\ Len(positive') = Len(groups') + 1
        /\ Len(negative') = Len(groups') + 1
        /\ positive'[Len(groups') + 1].val = {}
        /\ negative'[Len(groups') + 1].val = {}
        /\ \A q \in 1..Len(positive) : positive'[q] = positive[q]
        /\ \A q \in 1..Len(negative) : negative'[q] = negative[q]]_vars

\* ----------------------------------------------------- claims C14 .. C19
\* C14: reset leaves the state of the session start: no group registered and
\* one empty row in each tensor.
C14_ResetRestoresStart ==
    [][last'.op = "reset" =>
        /\ groups' = <<>>
        /\ positive' = ZeroTensor
        /\ negative' = ZeroTensor]_vars

\* the call named an id that is no item id, or a group that is not registered
NamesInvalid(l, gs) ==
    \/ /\ l.op \in {"setImagePositive", "setImageNegative", "setImageNeutral", "updateGroup"}
       /\ ~(l.a \cup l.b \subseteq Items)
    \/ l.op = "updateGroup" /\ ~Registered(gs, l.g)

\* C15: a mutation that names an id outside 0..N-1 or a group that is not
\* registered raises and changes no entry of positive or negative.
C15_InvalidMutationRejected ==
    [][NamesInvalid(last', groups) =>
        /\ last'.err # ""
        /\ positive' = positive
        /\ negative' = negative]_vars

\* C16: deserialize of lists that hold an id outside 0..N-1 raises and
\* leaves groups, positive and negative as they were.
C16_MalformedLoadRejected ==
    [][(last'.op = "deserialize" /\ ~(last'.a \cup last'.b \subseteq Items)) =>
        /\ last'.err # ""
        /\ groups' = groups
        /\ positive' = positive
        /\ negative' = negative]_vars

\* C17: serialize returns the ids of row 0 of positive and of row 0 of
\* negative and nothing of the rows of user groups; deserialize of what it
\* returned leaves no user group and the same two sets in row 0.
C17_SerializeRoundTrip ==
    [][last'.op = "restore" =>
        /\ last'.a = positive[1].val
        /\ last'.b = negative[1].val
        /\ groups' = <<>>
        /\ Len(positive') = 1 /\ Len(negative') = 1
        /\ positive'[1].val = positive[1].val
        /\ negative'[1].val = negative[1].val]_vars

\* a state with a user group whose rows were not empty was saved and restored
C17_Witness ==
    /\ last.op = "restore"
    /\ last.n > 0 /\ last.rows > 1
    /\ last.a # {} /\ last.b # {}

Disjoint(posi, nega) ==
    \A k \in 1..Min(Len(posi), Len(nega)) : posi[k].val \cap nega[k].val = {}

\* the calls the canvas makes: ids of items and of custom images (-1), files
\* that serialize wrote
CanvasIssued(l) ==
    \/ l.op \in {"create_group", "remove_group", "reset", "restore"}
    \/ /\ l.op \in {"setImagePositive", "setImageNegative", "setImageNeutral", "updateGroup"}
       /\ l.a \cup l.b \subseteq Items \cup {-1}
    \/ l.op = "deserialize" /\ l.a \cup l.b \subseteq Items

\* C18: no call the canvas makes puts an item into both the positive and the
\* negative set of a group: from a state where the sets of every group are
\* disjoint such a call leads to a state where they are disjoint.
C18_PositiveNegativeDisjoint ==
    [][(Disjoint(positive, negative) /\ CanvasIssued(last')) =>
        Disjoint(positive', negative')]_vars

\* rows of user groups and the list of groups are as before
UserRowsUnchanged ==
    /\ groups' = groups
    /\ Len(positive') = Len(positive) /\ Len(negative') = Len(negative)
    /\ \A k \in 2..Len(positive) : positive'[k] = positive[k]
    /\ \A k \in 2..Len(negative) : negative'[k] = negative[k]

OthersUnchanged(i) ==
    \A j \in Items \ {i} :
        /\ (j \in positive'[1].val) = (j \in positive[1].val)
        /\ (j \in negative'[1].val) = (j \in negative[1].val)

\* C19: for an item i, setImagePositive(i) leaves i positive and not negative
\* in group 0, setImageNegative(i) negative and not positive, setImageNeutral(i)
\* neither; the other items and the rows of user groups are as before.
C19_MarkSetsExactlyOneItem ==
    [][(last'.op \in {"setImagePositive", "setImageNegative", "setImageNeutral"}
            /\ last'.a \subseteq Items) =>
        LET i == CHOOSE id \in last'.a : TRUE
        IN  /\ last'.err = ""
            /\ (i \in positive'[1].val) = (last'.op = "setImagePositive")
            /\ (i \in negative'[1].val) = (last'.op = "setImageNegative")
            /\ OthersUnchanged(i)
            /\ UserRowsUnchanged]_vars

\* item 0 was marked positive while item 1 is negative and a user group has labels
C19_Witness ==
    /\ last.op = "setImagePositive" /\ last.a = {0} /\ last.err = ""
    /\ 1 \in negative[1].val
    /\ Len(positive) > 1 /\ Len(negative) > 1
    /\ positive[2].val # {} /\ negative[2].val # {}

\* ------------------------------------------ the caller, one line per step
\* The caller thread (the Qt thread) runs one ArtSearch call at a time; the
\* update_latent thread can run between any two of its lines.  The calls
\* taken line by line are the ones the group handlers of CanvasScene make:
\* create_group, remove_group, updateGroup and content_change.  Lines that
\* touch only locals of the call are taken together with the next line that
\* reads or writes a field of ArtSearch.

View(tensor, k) == [live |-> TRUE, len |-> Min(k, Len(tensor)), rows |-> <<>>]
\* the attribute is bound to a new tensor: a live view keeps the old rows
Freeze(v, tensor) ==
    IF v.live THEN [live |-> FALSE, len |-> v.len, rows |-> SubSeq(tensor, 1, v.len)] ELSE v
\* row i (1-based) as seen through the view
ViewRow(v, tensor, i) == IF v.live THEN tensor[i] ELSE v.rows[i]

\* of a call made line by line, the record keeps the operation and its outcome
NoCall == [op |-> "", g |-> 0, a |-> {}, b |-> {}, err |-> "", p |-> 0, n |-> 0, rows |-> 0]

Return(err) ==
    /\ cpc' = "idle"
    /\ carg' = NoArg
    /\ last' = [NoCall EXCEPT !.op = carg.op, !.err = err]

Goto(line) ==
    /\ cpc' = line
    /\ UNCHANGED <<carg, last>>

\* every step of the caller leaves these alone
CallerFrame ==
    UNCHANGED <<data_changed, group_name, engineVars, result,
                lpc, group_names, li, pos_example, neg_example, group_embeddings,
                guiVars>>

\* create_group, line 136 (a fresh Group object)
CallCreateGroup ==
    /\ cpc = "idle"
    /\ nextGid <= MaxGroups
    /\ SetRS(cg_append(RS, nextGid))
    /\ nextGid' = nextGid + 1
    /\ cpc' = "cg137"
    /\ carg' = [NoArg EXCEPT !.op = "create_group", !.g = nextGid]
    /\ UNCHANGED <<last, vpos, vneg>>
    /\ CallerFrame

\* create_group, lines 137-138
CreateGroup138 ==
    /\ cpc = "cg137"
    /\ IF cg_cond(RS)
       THEN /\ SetRS(cg_positive(RS, carg.g))
            /\ vpos' = Freeze(vpos, positive)
            /\ Goto("cg139")
       ELSE /\ UNCHANGED <<groups, positive, negative, vpos>>
            /\ Return("")
    /\ UNCHANGED <<nextGid, vneg>>
    /\ CallerFrame

\* create_group, line 139
CreateGroup139 ==
    /\ cpc = "cg139"
    /\ SetRS(cg_negative(RS, carg.g))
    /\ vneg' = Freeze(vneg, negative)
    /\ Return("")
    /\ UNCHANGED <<nextGid, vpos>>
    /\ CallerFrame

\* remove_group, lines 124-125
CallRemoveGroup ==
    /\ cpc = "idle"
    /\ \E g \in 1..(nextGid - 1) :
        IF Registered(groups, g)
        THEN /\ SetRS(rg_remove(RS, g))
             /\ cpc' = "rg132"
             /\ carg' = [NoArg EXCEPT !.op = "remove_group", !.g = g, !.p = IndexOf(groups, g)]
             /\ UNCHANGED last
        ELSE /\ UNCHANGED <<groups, positive, negative, cpc, carg>>
             /\ last' = [NoCall EXCEPT !.op = "remove_group", !.err = "ValueError"]
    /\ UNCHANGED <<nextGid, vpos, vneg>>
    /\ CallerFrame

\* remove_group, line 132
RemoveGroup132 ==
    /\ cpc = "rg132"
    /\ SetRS(rg_positive(RS, (carg.p - 1) + 1))
    /\ vpos' = Freeze(vpos, positive)
    /\ Goto("rg133")
    /\ UNCHANGED <<nextGid, vneg>>
    /\ CallerFrame

\* remove_group, line 133
RemoveGroup133 ==
    /\ cpc = "rg133"
    /\ SetRS(rg_negative(RS, (carg.p - 1) + 1))
    /\ vneg' = Freeze(vneg, negative)
    /\ Return("")
    /\ UNCHANGED <<nextGid, vpos>>
    /\ CallerFrame

\* updateGroup, lines 174-176
CallUpdateGroup ==
    /\ cpc = "idle"
    /\ \E g \in 1..(nextGid - 1), pq \in UpdatePairs :
        IF ~Registered(groups, g)
        THEN /\ UNCHANGED <<groups, positive, negative, cpc, carg>>
             /\ last' = [NoCall EXCEPT !.op = "updateGroup", !.err = "ValueError"]
        ELSE IF IndexOf(groups, g) + 1 > Len(positive)
        THEN /\ UNCHANGED <<groups, positive, negative, cpc, carg>>
             /\ last' = [NoCall EXCEPT !.op = "updateGroup", !.err = "IndexError"]
        ELSE /\ SetRS(ug_clear_pos(RS, g, IndexOf(groups, g)))
             /\ cpc' = "ug177"
             /\ carg' = [op |-> "updateGroup", g |-> g, p |-> IndexOf(groups, g),
                         pos |-> pq[1], neg |-> pq[2]]
             /\ UNCHANGED last
    /\ UNCHANGED <<nextGid, vpos, vneg>>
    /\ CallerFrame

\* updateGroup, line 177
UpdateGroup177 ==
    /\ cpc = "ug177"
    /\ SetRS(ug_set_pos(RS, carg.g, carg.p, carg.pos))
    /\ Goto("ug179")
    /\ UNCHANGED <<nextGid, vpos, vneg>>
    /\ CallerFrame

\* updateGroup, line 179
UpdateGroup179 ==
    /\ cpc = "ug179"
    /\ IF carg.p + 1 > Len(negative)
       THEN /\ UNCHANGED <<groups, positive, negative>>
            /\ Return("IndexError")
       ELSE /\ SetRS(ug_clear_neg(RS, carg.g, carg.p))
            /\ Goto("ug180")
    /\ UNCHANGED <<nextGid, vpos, vneg>>
    /\ CallerFrame

\* updateGroup, line 180
UpdateGroup180 ==
    /\ cpc = "ug180"
    /\ SetRS(ug_set_neg(RS, carg.g, carg.p, carg.neg))
    /\ Return("")
    /\ UNCHANGED <<nextGid, vpos, vneg>>
    /\ CallerFrame

\* content_change, lines 82-85
CallContentChange ==
    /\ cpc = "idle"
    /\ data_changed' = TRUE
    /\ last' = [NoCall EXCEPT !.op = "content_change"]
    /\ UNCHANGED <<groups, positive, negative, nextGid, group_name, cpc, carg,
                   engineVars, result, loopVars, guiVars>>

CallerStep ==
    \/ CallContentChange
    \/ CallCreateGroup
    \/ CreateGroup138
    \/ CreateGroup139
    \/ CallRemoveGroup
    \/ RemoveGroup132
    \/ RemoveGroup133
    \/ CallUpdateGroup
    \/ UpdateGroup177
    \/ UpdateGroup179
    \/ UpdateGroup180

\* ------------------------------------------------- the retrieval functions
\* A session at rest: some items on the canvas or rejected, possibly one group
\* "a" around some of the canvas items, and the engine as the refinement loop
\* leaves it after a cycle with those labels (center rebuilt, table refreshed,
\* parameters trained only if the group had both kinds of examples).
InitSearch ==
    \E enc \in [Items -> Vecs], pq \in LabelPairs, hasGroup \in BOOLEAN, inGroup \in SUBSET Items,
       trained \in BOOLEAN :
        /\ inGroup \subseteq pq[1]
        /\ (~hasGroup => inGroup = {})
        /\ (trained => (hasGroup /\ inGroup # {} /\ pq[1] \ inGroup # {}))
        /\ groups = IF hasGroup THEN <<1>> ELSE <<>>
        /\ positive = IF hasGroup THEN <<Row(CANVAS, pq[1]), Row(1, inGroup)>>
                                  ELSE <<Row(CANVAS, pq[1])>>
        /\ negative = IF hasGroup THEN <<Row(CANVAS, pq[2]), Row(1, pq[1] \ inGroup)>>
                                  ELSE <<Row(CANVAS, pq[2])>>
        /\ data_changed = FALSE
        /\ nextGid = IF hasGroup THEN 2 ELSE 1
        /\ last = [op |-> "init", g |-> 0, a |-> {}, b |-> {}, err |-> "", p |-> 0, n |-> 0, rows |-> 1]
        /\ group_name = [g \in Gids |-> IF g = 1 /\ hasGroup THEN "a" ELSE "New Group"]
        /\ encodings = enc
        /\ use_embedding = TRUE
        /\ params = IF trained THEN "trained" ELSE "identity"
        /\ center = IF hasGroup THEN <<{enc[i] : i \in inGroup}, {encode_text("a")}>> ELSE <<>>
        /\ embeddings = Stamp(refine_image_embedding(params, center, enc), 0)
        /\ result = NoResult
        /\ InitGui
        /\ cpc = "idle"
        /\ carg = NoArg
        /\ lpc = "L148"
        /\ group_names = <<>>
        /\ vpos = NoView
        /\ vneg = NoView
        /\ li = 0
        /\ pos_example = IF hasGroup THEN <<Row(1, inGroup)>> ELSE <<>>
        /\ neg_example = IF hasGroup THEN <<Row(1, pq[1] \ inGroup)>> ELSE <<>>
        /\ group_embeddings = IF hasGroup THEN <<[gid |-> 1, name |-> "a"]>> ELSE <<>>

Masks == SUBSET Items

\* A call is made when the result of the previous one has been taken.
SearchByText ==
    /\ result.op = "none"
    /\ \E valid \in Masks, text \in Texts, k \in 0..NumItems :
        \E ids \in search_by_text(valid, text, k) :
            /\ result' = [NoResult EXCEPT !.op = "search_by_text", !.valid = valid, !.k = k,
                                          !.text = text, !.ids = ids, !.eps = TableRead]
            /\ UNCHANGED <<relVars, engineVars, threadVars, guiVars>>

SearchByImage ==
    /\ result.op = "none"
    /\ \E valid \in Masks, image \in Images, k \in 0..NumItems :
        \E ids \in search_by_image(valid, image, k) :
            /\ result' = [NoResult EXCEPT !.op = "search_by_image", !.valid = valid, !.k = k,
                                          !.image = image, !.ids = ids, !.eps = TableRead]
            /\ UNCHANGED <<relVars, engineVars, threadVars, guiVars>>

RestrictSearch ==
    /\ result.op = "none"
    /\ \E filters \in Filters :
        LET r == restrict_search(RS, filters)
        IN  /\ result' = [NoResult EXCEPT !.op = "restrict_search", !.filters = filters,
                                          !.valid = r.valid, !.err = r.err]
            /\ UNCHANGED <<relVars, engineVars, threadVars, guiVars>>

\* text_search (lines 109-116), language 'EN'
TextSearch ==
    /\ result.op = "none"
    /\ \E text \in Texts, filters \in Filters :
        LET r == restrict_search(RS, filters)
        IN  /\ IF r.err # ""
               THEN result' = [NoResult EXCEPT !.op = "text_search", !.filters = filters,
                                               !.text = text, !.err = r.err]
               ELSE \E ids \in search_by_text(r.valid, text, NumItems) :
                        result' = [NoResult EXCEPT !.op = "text_search", !.filters = filters,
                                                   !.valid = r.valid, !.k = NumItems,
                                                   !.text = text, !.ids = ids,
                                                   !.eps = TableRead]
            /\ UNCHANGED <<relVars, engineVars, threadVars, guiVars>>

\* image_search (lines 118-120)
ImageSearch ==
    /\ result.op = "none"
    /\ \E image \in Images, filters \in Filters :
        LET r == restrict_search(RS, filters)
        IN  /\ IF r.err # ""
               THEN result' = [NoResult EXCEPT !.op = "image_search", !.filters = filters,
                                               !.image = image, !.err = r.err]
               ELSE \E ids \in search_by_image(r.valid, image, NumItems) :
                        result' = [NoResult EXCEPT !.op = "image_search", !.filters = filters,
                                                   !.valid = r.valid, !.k = NumItems,
                                                   !.image = image, !.ids = ids,
                                                   !.eps = TableRead]
            /\ UNCHANGED <<relVars, engineVars, threadVars, guiVars>>

\* SearchBar, line 180: search.use_embedding = self.toggle_button.getState()
ToggleUseEmbedding ==
    /\ result.op = "none"
    /\ use_embedding' = ~use_embedding
    /\ UNCHANGED <<relVars, encodings, embeddings, params, center, result, threadVars, guiVars>>

\* the caller takes the returned list (SearchBar shows it)
TakeResult ==
    /\ result.op # "none"
    /\ result' = NoResult
    /\ UNCHANGED <<relVars, engineVars, threadVars, guiVars>>

NextSearch ==
    \/ TakeResult
    \/ SearchByText
    \/ SearchByImage
    \/ RestrictSearch
    \/ TextSearch
    \/ ImageSearch
    \/ ToggleUseEmbedding

SpecSearch == InitSearch /\ [][NextSearch]_vars

\* ------------------------------------------------------- claims C8, C9, C10
Ids(seq) == {seq[m] : m \in 1..Len(seq)}

\* C8: every id search_by_text returns is valid under the mask it was given,
\* for every mask, query and k and whatever the sign of the similarities.
C8_TextResultsAreValid ==
    (result.op \in {"search_by_text", "text_search"} /\ result.err = "")
        => Ids(result.ids) \subseteq result.valid

\* C9: search_by_image returns min(k, number of valid items) ids, none of
\* them masked out; so does image_search, which passes k = collection size.
C9_ImageResultsClamped ==
    (result.op \in {"search_by_image", "image_search"} /\ result.err = "")
        => /\ Len(result.ids) = Min(result.k, Cardinality(result.valid))
           /\ Ids(result.ids) \subseteq result.valid

\* C10: restrict_search returns the mask that is true exactly for the items
\* that are neither positive nor negative in group 0 and match every active
\* filter; with no active filter it is "not positive[0] and not negative[0]",
\* and an active filter that matches no item makes it all false.
C10_MaskIsFilterIntersection ==
    result.op = "restrict_search"
        => /\ result.err = ""
           /\ result.valid =
                  {i \in Items :
                      /\ i \notin positive[1].val
                      /\ i \notin negative[1].val
                      /\ \A key \in MetaKeys :
                             result.filters[key] # "" => i \in meta_search(key, result.filters[key])}


\* ------------------------------------------- update_latent, one read per step
\* The daemon thread of ArtSearch.__init__ (line 66) runs update_latent.  Its
\* steps are the reads and writes of fields the caller also touches; lpc is
\* the line it executes next.  The list comprehension of line 149 is taken in
\* one step.  An exception leaves the thread at the line's error label for
\* good: update_latent has no handler.

\* (mutant of Loop148: the rebuild is run in every cycle, whatever the flag)
Loop148_always_rebuild ==
    /\ lpc = "L148"
    /\ lpc' = "L149"
    /\ li' = 0
    /\ UNCHANGED <<group_names, vpos, vneg, pos_example, neg_example, group_embeddings,
                   relVars, engineVars, result, callerVars, guiVars>>

\* update_latent, line 148
Loop148 ==
    /\ lpc = "L148"
    /\ lpc' = IF data_changed THEN "L149" ELSE "L154"
    /\ li' = IF data_changed THEN 0 ELSE 1
    /\ UNCHANGED <<group_names, vpos, vneg, pos_example, neg_example, group_embeddings,
                   relVars, engineVars, result, callerVars, guiVars>>

\* update_latent, line 149
Loop149 ==
    /\ lpc = "L149"
    /\ group_names' = [j \in 1..Len(groups) |-> [gid |-> groups[j], name |-> getName(groups[j])]]
    /\ lpc' = "L150"
    /\ UNCHANGED <<vpos, vneg, li, pos_example, neg_example, group_embeddings,
                   relVars, engineVars, result, callerVars, guiVars>>

\* update_latent, line 150
Loop150 ==
    /\ lpc = "L150"
    /\ vpos' = View(positive, Len(groups) + 1)
    /\ lpc' = "L151"
    /\ UNCHANGED <<group_names, vneg, li, pos_example, neg_example, group_embeddings,
                   relVars, engineVars, result, callerVars, guiVars>>

\* update_latent, line 151, and update_group_embeddings, lines 65-67
Loop151 ==
    /\ lpc = "L151"
    /\ vneg' = View(negative, Len(groups) + 1)
    /\ pos_example' = <<>>
    /\ neg_example' = <<>>
    /\ group_embeddings' = <<>>
    /\ li' = 1
    /\ lpc' = "L75"
    /\ UNCHANGED <<group_names, vpos, relVars, engineVars, result, callerVars, guiVars>>

\* update_group_embeddings, lines 68-75: i = li, row 0 was skipped
Loop75 ==
    /\ lpc = "L75"
    /\ IF li >= vpos.len
       THEN /\ lpc' = "L79"
            /\ UNCHANGED pos_example
       ELSE /\ pos_example' = Append(pos_example, ViewRow(vpos, positive, li + 1))
            /\ lpc' = "L76"
    /\ UNCHANGED <<group_names, vpos, vneg, li, neg_example, group_embeddings,
                   relVars, engineVars, result, callerVars, guiVars>>

\* update_group_embeddings, lines 76-77
Loop76 ==
    /\ lpc = "L76"
    /\ IF li >= vneg.len \/ li - 1 >= Len(group_names)
       THEN /\ lpc' = "IndexError"
            /\ UNCHANGED <<neg_example, group_embeddings, li>>
       ELSE /\ neg_example' = Append(neg_example, ViewRow(vneg, negative, li + 1))
            /\ group_embeddings' = Append(group_embeddings, group_names[(li - 1) + 1])
            /\ li' = li + 1
            /\ lpc' = "L75"
    /\ UNCHANGED <<group_names, vpos, vneg, pos_example,
                   relVars, engineVars, result, callerVars, guiVars>>

\* Embedder.update_data (Embedding.py, lines 379-384)
update_data(enc, g_emb, pos) ==
    [c \in 1..(2 * Len(g_emb)) |->
        IF c % 2 = 1 THEN {enc[i] : i \in pos[(c + 1) \div 2].val}
                     ELSE {encode_text(g_emb[c \div 2].name)}]

\* update_group_embeddings, line 79
Loop79 ==
    /\ lpc = "L79"
    /\ center' = update_data(encodings, group_embeddings, pos_example)
    /\ lpc' = "L80"
    /\ UNCHANGED <<group_names, vpos, vneg, li, pos_example, neg_example, group_embeddings,
                   relVars, encodings, embeddings, use_embedding, params, result, callerVars, guiVars>>

\* update_group_embeddings, line 80; the views and the name list are locals
\* of the call that ends here
Loop80 ==
    /\ lpc = "L80"
    /\ data_changed' = FALSE
    /\ group_names' = <<>>
    /\ vpos' = NoView
    /\ vneg' = NoView
    /\ li' = 1
    /\ lpc' = "L154"
    /\ UNCHANGED <<groups, positive, negative, nextGid, last, group_name,
                   pos_example, neg_example, group_embeddings, engineVars, result, callerVars, guiVars>>

\* What loss.backward() and optimizer.step() can do to the parameters.
Outcomes == {"ok", "raise", "nan"}

\* optimizer.step() (Embedding.py, lines 405-410): a finite loss moves the
\* parameters, a NaN loss writes NaN into them
step(par, outcome) ==
    IF outcome = "nan" \/ par = "nan" THEN "nan" ELSE "trained"

\* Embedder.optimize_embedding (Embedding.py, lines 396-410): group j = li
Loop154 ==
    /\ lpc = "L154"
    /\ IF li > Len(group_embeddings)
       THEN /\ lpc' = "L155"
            /\ li' = 0
            /\ UNCHANGED params
       ELSE IF pos_example[li].val = {} \/ neg_example[li].val = {}
       THEN /\ li' = li + 1
            /\ UNCHANGED <<lpc, params>>
       ELSE \E outcome \in Outcomes :
                IF outcome = "raise"
                THEN /\ lpc' = "OptimizerError"
                     /\ UNCHANGED <<li, params>>
                ELSE /\ params' = step(params, outcome)
                     /\ li' = li + 1
                     /\ UNCHANGED lpc
    /\ UNCHANGED <<group_names, vpos, vneg, pos_example, neg_example, group_embeddings,
                   relVars, encodings, embeddings, use_embedding, center, result, callerVars, guiVars>>

\* the cycle a table was computed in, told from the one before it
NextEp(tbl) == 1 - tbl[0].ep

\* (mutant of update_embedding: the rows are copied into the old tensor one by
\* one, and a reader finds row 0 written and the other rows not yet)
update_embedding_in_place(old, new) == [i \in Items |-> IF i = 0 THEN new[i] ELSE old[i]]

\* SearchEngine.update_embedding, line 86: the new table is computed in full
\* and the attribute is then bound to it; the old tensor is not written.
update_embedding(old, new) == new

\* update_latent, line 155 (SearchEngine.update_embedding, lines 85-86)
Loop155 ==
    /\ lpc = "L155"
    /\ embeddings' = update_embedding(embeddings,
                        Stamp(refine_image_embedding(params, center, encodings),
                              NextEp(embeddings)))
    /\ lpc' = "L148"
    /\ UNCHANGED <<group_names, vpos, vneg, li, pos_example, neg_example, group_embeddings,
                   relVars, encodings, use_embedding, params, center, result, callerVars, guiVars>>

LoopStep ==
    \/ Loop148
    \/ Loop149
    \/ Loop150
    \/ Loop151
    \/ Loop75
    \/ Loop76
    \/ Loop79
    \/ Loop80
    \/ Loop154
    \/ Loop155

\* the encodings file of the two-thread specifications
LoopEncodings == [i \in Items |-> IF i = 0 THEN <<0, 1>> ELSE <<1, 0>>]

Init ==
    /\ InitRel
    /\ InitEngine(LoopEncodings)
    /\ result = NoResult
    /\ InitThreads
    /\ InitGui

Next ==
    \/ CallerStep
    \/ LoopStep

Spec == Init /\ [][Next]_vars

\* --------------------------------------------------- claims C1, C2, C3
\* the tuples a rebuild that reads the present lists and rows would leave
Rebuilt ==
    /\ Len(group_embeddings) = Len(groups)
    /\ Len(pos_example) = Len(groups)
    /\ Len(neg_example) = Len(groups)
    /\ \A j \in 1..Len(groups) :
        /\ j + 1 <= Len(positive) /\ j + 1 <= Len(negative)
        /\ group_embeddings[j] = [gid |-> groups[j], name |-> getName(groups[j])]
        /\ pos_example[j].val = positive[j + 1].val
        /\ neg_example[j].val = negative[j + 1].val

\* C1: a mutation the caller has completed with content_change is not lost.
\* Once content_change has returned and the caller has done nothing since, the
\* flag it set is cleared only by a rebuild that read the lists and rows as
\* they are now: with the flag down, the training tuples are the ones a
\* rebuild of the present state gives.
C1_MutationNotLost ==
    (cpc = "idle" /\ last.op = "content_change" /\ ~data_changed) => Rebuilt

\* C2: every training tuple the rebuild has put together pairs the name of a
\* group with the positive row and the negative row of that same group.
C2_NamesPairedWithOwnRows ==
    \A j \in 1..Len(group_embeddings) :
        /\ pos_example[j].own = group_embeddings[j].gid
        /\ neg_example[j].own = group_embeddings[j].gid

\* C3: the rebuild never reads a name or a row at an index that does not
\* exist, so update_latent never ends with an IndexError.
C3_LoopNeverRaises == lpc # "IndexError"

\* ------------------------------------------- searches during the refinement
\* One group "a" holding image 0, image 1 outside it; searches are made while
\* update_latent trains and refreshes the table.  A search reads
\* self.embeddings once (SearchEngine.py, line 41 or 56): it is one step.
InitRefresh ==
    /\ groups = <<1>>
    /\ positive = <<Row(CANVAS, Items), Row(1, {0})>>
    /\ negative = <<Row(CANVAS, {}), Row(1, Items \ {0})>>
    /\ data_changed = TRUE
    /\ nextGid = 2
    /\ last = [NoCall EXCEPT !.op = "init"]
    /\ group_name = [g \in Gids |-> IF g = 1 THEN "a" ELSE "New Group"]
    /\ InitEngine(LoopEncodings)
    /\ result = NoResult
    /\ InitThreads
    /\ scene = [images |-> [i \in Items |-> IF i = 0 THEN 1 ELSE CANVAS], groups |-> {1}]
    /\ box = NoBox

NextRefresh ==
    \/ LoopStep
    \/ CallContentChange
    \/ SearchByText
    \/ SearchByImage
    \/ ToggleUseEmbedding
    \/ TakeResult

SpecRefresh == InitRefresh /\ [][NextRefresh]_vars

\* ------------------------------------------------------- claims C4, C5
\* C4: a search made with the refined table multiplies the mask with the rows
\* of one refresh cycle, the table published before the refresh or the one it
\* publishes, never with rows of two cycles.
C4_SearchReadsOneTable ==
    (result.op \in {"search_by_text", "search_by_image"} /\ result.eps # {}) =>
        \E ep \in {0, 1} : result.eps = {ep}

\* a search returned the rows of a refreshed table while the next refresh,
\* with trained parameters, is about to publish
C4_Witness ==
    /\ result.op \in {"search_by_text", "search_by_image"}
    /\ result.eps = {1}
    /\ lpc = "L155"
    /\ params = "trained"

\* C5: a failing optimizer step of one group is isolated: it does not end
\* update_latent and it leaves nothing in the parameters.
C5_StepFailureIsolated == lpc # "OptimizerError" /\ params # "nan"

\* ------------------------------------------- the handlers of the window
\* One action per slot of the GUI thread (src/gui).  A slot runs to its end on
\* the GUI thread; it is taken as one step here.  An exception raised inside a
\* slot ends the slot where it is raised: what the slot did before stays.

\* CanvasScene.getImages: the image items on the scene
getImages(sc) == DOMAIN sc.images
\* Group.getContent, restricted to image items, as ids
getContent(sc, g) == {i \in DOMAIN sc.images : sc.images[i] = g}
\* QGraphicsScene.addItem / setPos for an image item
addItem(sc, id, place) ==
    [sc EXCEPT !.images = [i \in (DOMAIN sc.images) \cup {id} |->
                              IF i = id THEN place ELSE sc.images[i]]]
\* QGraphicsScene.removeItem for an image item
removeItem(sc, id) ==
    [sc EXCEPT !.images = [i \in (DOMAIN sc.images) \ {id} |-> sc.images[i]]]
\* QGraphicsScene.removeItem for a Group item: its images stay on the canvas
removeGroupItem(sc, g) ==
    [images |-> [i \in DOMAIN sc.images |-> IF sc.images[i] = g THEN CANVAS ELSE sc.images[i]],
     groups |-> sc.groups \ {g}]

\* Box.addImage (lines 109-125), the widget and the dict; its call of
\* setImageNegative is made by the actions below
Box_addImage(bx, id) == [shown |-> bx.shown \cup {id}, images |-> bx.images \cup {id}]
\* Box.removeImage (lines 127-139): acts only on an id found in self.images
Box_removeImage(bx, id) ==
    IF id \in bx.images
    THEN [shown |-> bx.shown \ {id}, images |-> bx.images \ {id}]
    ELSE bx
\* Box.deserialize (lines 242-247): self.images = {} and the widgets of the
\* file; deserializeColumn adds widgets and leaves self.images empty
Box_deserialize(bx, ids) == [shown |-> ids, images |-> {}]

\* CanvasScene.updateGroups, lines 430-436: the loop over the Group items.
\* QGraphicsScene.items() lists the items created last first.
RECURSIVE ugs_loop(_, _, _)
ugs_loop(rs, sc, todo) ==
    IF todo = {}
    THEN [rs |-> rs, err |-> ""]
    ELSE LET g == CHOOSE x \in todo : \A y \in todo : y <= x
             posi == getContent(sc, g)
             nega == getImages(sc) \ posi
             r == updateGroup(rs, g, posi, nega)
         IN  IF r.err # "" THEN r ELSE ugs_loop(r.rs, sc, todo \ {g})

\* CanvasScene.updateGroups up to line 436; line 439 (content_change) is run
\* by the actions when no updateGroup raised
updateGroups(rs, sc) == ugs_loop(rs, sc, sc.groups)

GuiDone(op, err) == [NoCall EXCEPT !.op = op, !.err = err]

\* the tail every slot that calls updateGroups shares: the tensors it leaves
\* and content_change (line 439) unless an exception ended the slot before
AfterUpdateGroups(op, r) ==
    /\ SetRS(r.rs)
    /\ data_changed' = (data_changed \/ r.err = "")
    /\ last' = GuiDone(op, r.err)

\* what no handler touches; the views update_latent holds (lines 150-151) are
\* left to the handler: they keep following a tensor written in place and keep
\* the old rows once the attribute is bound to a new tensor
HandlerFrame ==
    UNCHANGED <<engineVars, result, callerVars,
                lpc, group_names, li, pos_example, neg_example, group_embeddings>>
FreezeViews(rebound) ==
    /\ vpos' = IF rebound THEN Freeze(vpos, positive) ELSE vpos
    /\ vneg' = IF rebound THEN Freeze(vneg, negative) ELSE vneg

\* CanvasScene.addImage (lines 194-256), from the search bar or from the box
AddImage ==
    \E id \in Items, place \in {CANVAS} \cup scene.groups :
        /\ id \notin getImages(scene)
        /\ LET sc == addItem(scene, id, place)
           IN  /\ scene' = sc
               /\ box' = Box_removeImage(box, id)
               /\ AfterUpdateGroups("addImage", updateGroups(setImagePositive(RS, id), sc))
        /\ UNCHANGED <<nextGid, group_name, engineVars, result, threadVars>>

\* CanvasScene.addCustomImage (lines 258-269)
AddCustomImage ==
    /\ CUSTOM \notin getImages(scene)
    /\ scene' = addItem(scene, CUSTOM, CANVAS)
    /\ last' = GuiDone("addCustomImage", "")
    /\ UNCHANGED <<groups, positive, negative, data_changed, nextGid, group_name, box,
                   engineVars, result, threadVars>>

\* ImageGraphicsItem.remove (lines 233-244) of an image of the archive:
\* CanvasScene.removeImage (lines 271-292)
RemoveImage ==
    \E id \in getImages(scene) \cap Items :
        /\ LET sc == removeItem(scene, id)
               r1 == setImageNegative(setImageNegative(RS, id), id)
           IN  /\ scene' = sc
               /\ box' = Box_addImage(box, id)
               /\ AfterUpdateGroups("removeImage", updateGroups(r1, sc))
        /\ UNCHANGED <<nextGid, group_name, engineVars, result, threadVars>>

\* ImageGraphicsItem.remove (lines 233-244) of a custom image
RemoveCustomImage ==
    /\ CUSTOM \in getImages(scene)
    /\ scene' = removeItem(scene, CUSTOM)
    /\ last' = GuiDone("removeCustomImage", "")
    /\ UNCHANGED <<groups, positive, negative, data_changed, nextGid, group_name, box,
                   engineVars, result, threadVars>>

\* ImageGraphicsItem.putBack (lines 252-264)
PutBack ==
    \E id \in getImages(scene) \cap Items :
        /\ scene' = removeItem(scene, id)
        /\ SetRS(setImageNeutral(RS, id))
        /\ last' = GuiDone("putBack", "")
        /\ UNCHANGED <<data_changed, nextGid, group_name, box, engineVars, result, threadVars>>

\* ImageGraphicsItem.mouseReleaseEvent, an image dropped on the search bar
\* (lines 138-159): the parent's handler reports the move (itemMoved), then
\* the image is made neutral under its own id and leaves the scene
DropOnSearchBar ==
    \E id \in getImages(scene) :
        LET r == updateGroups(RS, scene)
        IN  /\ scene' = IF r.err = "" THEN removeItem(scene, id) ELSE scene
            /\ SetRS(IF r.err = "" THEN setImageNeutral(r.rs, id) ELSE r.rs)
            /\ data_changed' = (data_changed \/ r.err = "")
            /\ last' = GuiDone("dropOnSearchBar", r.err)
            /\ UNCHANGED <<nextGid, group_name, box, engineVars, result, threadVars>>

\* SearchBar.putAwayContextMenuTriggered (lines 200-212)
PutAway ==
    \E id \in Items \ (getImages(scene) \cup box.shown) :
        /\ box' = Box_addImage(box, id)
        /\ SetRS(setImageNegative(setImageNegative(RS, id), id))
        /\ last' = GuiDone("putAway", "")
        /\ UNCHANGED <<data_changed, nextGid, group_name, scene, engineVars, result, threadVars>>

\* CanvasScene.itemMoved (lines 153-162): an image was dragged to another place
ItemMoved ==
    \E id \in getImages(scene), place \in {CANVAS} \cup scene.groups :
        /\ place # scene.images[id]
        /\ LET sc == addItem(scene, id, place)
           IN  /\ scene' = sc
               /\ AfterUpdateGroups("itemMoved", updateGroups(RS, sc))
        /\ UNCHANGED <<nextGid, group_name, box, engineVars, result, threadVars>>

\* CanvasScene.addGroup (lines 302-350): the group is named after the last
\* search term, or 'New Group'
AddGroup ==
    \E text \in {"New Group", "a"} :
        /\ nextGid <= MaxGroups
        /\ LET sc == [scene EXCEPT !.groups = @ \cup {nextGid}]
           IN  /\ scene' = sc
               /\ AfterUpdateGroups("addGroup", updateGroups(create_group(RS, nextGid), sc))
        /\ group_name' = [group_name EXCEPT ![nextGid] = text]
        /\ nextGid' = nextGid + 1
        /\ FreezeViews(cg_cond(cg_append(RS, nextGid)))
        /\ HandlerFrame
        /\ UNCHANGED box

\* CanvasScene.removeGroup (lines 352-365)
RemoveGroup ==
    \E g \in scene.groups :
        LET sc == removeGroupItem(scene, g)
            r1 == remove_group(RS, g)
        IN  /\ scene' = sc
            /\ AfterUpdateGroups("removeGroup",
                                 IF r1.err # "" THEN r1 ELSE updateGroups(r1.rs, sc))
            /\ FreezeViews(r1.err = "")
            /\ HandlerFrame
            /\ UNCHANGED <<nextGid, group_name, box>>

\* GroupName.keyPressEvent (Group.py, lines 317-341): the text is stored
RenameGroup ==
    \E g \in scene.groups, text \in {"a", "b"} :
        /\ group_name[g] # text
        /\ group_name' = [group_name EXCEPT ![g] = text]
        /\ last' = GuiDone("rename", "")
        /\ UNCHANGED <<groups, positive, negative, data_changed, nextGid, scene, box,
                       engineVars, result, threadVars>>

\* MainWindow.newFile (lines 161-171)
NewFile ==
    /\ scene' = NoScene
    /\ SetRS(reset(RS))
    /\ last' = GuiDone("newFile", "")
    /\ FreezeViews(TRUE)
    /\ HandlerFrame
    /\ UNCHANGED <<data_changed, nextGid, group_name, box>>

\* Project files (MainWindow.saveFile): what ArtSearch.serialize and
\* CanvasScene.serialize wrote.  images gives for every image item the group
\* of the file it lies in (its position in names, 0 for none).
EmptyFile ==
    [positive |-> {}, negative |-> {}, images |-> NoImages, names |-> <<>>, box |-> {}]
\* image 0 in a group named "a", the last item in the box
GroupFile ==
    [positive |-> {0}, negative |-> {NumItems - 1}, images |-> [i \in {0} |-> 1],
     names |-> <<"a">>, box |-> {NumItems - 1}]
\* a custom image on the canvas
CustomFile ==
    [positive |-> {}, negative |-> {}, images |-> [i \in {CUSTOM} |-> CANVAS],
     names |-> <<>>, box |-> {}]
Files == {EmptyFile, GroupFile, CustomFile}

\* CanvasScene.deserialize, lines 551-566: every image of the file
RECURSIVE sd_images(_, _)
sd_images(rs, ids) ==
    IF ids = {}
    THEN rs
    ELSE LET id == CHOOSE x \in ids : TRUE
         IN  sd_images(setImagePositive(rs, id), ids \ {id})

\* CanvasScene.deserialize, lines 568-579: every group of the file, as a new
\* Group object (g0 is the first of them)
RECURSIVE sd_groups(_, _, _)
sd_groups(rs, g0, n) ==
    IF n = 0 THEN rs ELSE create_group(sd_groups(rs, g0, n - 1), g0 + n - 1)

\* MainWindow.openFile (lines 173-186) and History.restoreTimeStamp (lines
\* 89-103): ArtSearch.deserialize, then CanvasScene.deserialize (543-598)
OpenFile ==
    \E f \in Files :
        LET n == Len(f.names)
            r1 == deserialize(RS, [positive |-> f.positive, negative |-> f.negative])
            r2 == sd_images(r1, DOMAIN f.images)
        IN  /\ nextGid + n - 1 <= MaxGroups
            /\ SetRS(sd_groups(r2, nextGid, n))
            /\ scene' = [images |-> [i \in DOMAIN f.images |->
                                        IF f.images[i] = 0 THEN CANVAS
                                        ELSE nextGid + f.images[i] - 1],
                         groups |-> nextGid..(nextGid + n - 1)]
            /\ group_name' = [g \in Gids |->
                                 IF g \in nextGid..(nextGid + n - 1)
                                 THEN f.names[g - nextGid + 1] ELSE group_name[g]]
            /\ nextGid' = nextGid + n
            /\ box' = Box_deserialize(box, f.box)
            /\ last' = GuiDone("load", "")
            /\ FreezeViews(TRUE)
            /\ HandlerFrame
            /\ UNCHANGED data_changed

GuiStep ==
    \/ AddImage
    \/ AddCustomImage
    \/ RemoveImage
    \/ RemoveCustomImage
    \/ PutBack
    \/ DropOnSearchBar
    \/ PutAway
    \/ ItemMoved
    \/ AddGroup
    \/ RemoveGroup
    \/ RenameGroup
    \/ NewFile
    \/ OpenFile

\* the window alone: the handlers, from the state after construction
InitCanvas ==
    /\ InitRel
    /\ InitEngine(ApiEncodings)
    /\ result = NoResult
    /\ InitThreads
    /\ InitGui

NextCanvas == GuiStep

SpecCanvas == InitCanvas /\ [][NextCanvas]_vars

\* ------------------------------------------------------------ claim C20
\* C20: after every completed handler of the window, an item is positive in
\* row 0 exactly when an image with its id is on the canvas, and negative in
\* row 0 exactly when the box shows it.
C20_CanvasRowMatchesWindow ==
    last.err = "" =>
        \A i \in Items :
            /\ i \in positive[1].val <=> i \in getImages(scene)
            /\ i \in negative[1].val <=> i \in box.shown

\* --------------------------------------------- the window and the loop
\* A session with one group on the canvas (image 0 inside it, the other images
\* outside), the update_latent thread running line by line, and the handlers
\* that rename, move and load.
NextSession ==
    \/ LoopStep
    \/ RenameGroup
    \/ ItemMoved
    \/ OpenFile

SpecSession == InitRefresh /\ [][NextSession]_vars

\* ------------------------------------------------ claims C11, C12, C13
\* C11: after a group was renamed, a refinement cycle that starts does not
\* go on with the old name: when it starts without a rebuild pending, the
\* training tuples and the center list carry the present name of their group.
C11_RenameReachesNextCycle ==
    (last.op = "rename" /\ lpc = "L148" /\ ~data_changed) =>
        \A j \in 1..Len(group_embeddings) :
            /\ group_embeddings[j].name = getName(group_embeddings[j].gid)
            /\ center[2 * j] = {encode_text(getName(group_embeddings[j].gid))}

\* the rows of the user groups say what the canvas shows: the images inside
\* the group are its positives, the other images of the canvas its negatives
CanvasRows ==
    /\ Len(positive) = Len(groups) + 1
    /\ Len(negative) = Len(groups) + 1
    /\ \A j \in 1..Len(groups) :
        /\ groups[j] \in scene.groups
        /\ positive[j + 1].val = getContent(scene, groups[j]) \cap Items
        /\ negative[j + 1].val = (getImages(scene) \ getContent(scene, groups[j])) \cap Items

\* C12: after a load or a restore, the refinement cycle that starts next works
\* on the groups' present canvas contents: the rows of the groups say what the
\* canvas shows, and the cycle either rebuilds its tuples from them or holds
\* the tuples such a rebuild gives.
C12_LoadRebuildsGroupSets ==
    (last.op = "load" /\ lpc = "L148") => (CanvasRows /\ (data_changed \/ Rebuilt))

\* C13: a load leaves the correction model as the identity model: the
\* parameters are the initial ones, the center list is empty and the refined
\* table equals the frozen one.
C13_LoadRestartsFromIdentity ==
    [][(last'.op = "load" /\ lpc' = lpc /\ li' = li) =>
        /\ params' = "identity"
        /\ center' = <<>>
        /\ \A i \in Items : embeddings'[i].v = encodings'[i]]_vars

\* ----------------------------------- the loop, the canvas and the searches
\* One group on the canvas whose content the user changes by dragging images
\* in and out of it (itemMoved), the update_latent thread line by line, and
\* searches on the caller thread with the refined table in use.
NextTraining ==
    \/ LoopStep
    \/ ItemMoved
    \/ SearchByText
    \/ SearchByImage
    \/ TakeResult

SpecTraining == InitRefresh /\ [][NextTraining]_vars

\* ------------------------------------------------------------ claim C21
\* optimize_embedding, line 398: group j of the tuples is passed over
Skipped(j) == pos_example[j].val = {} \/ neg_example[j].val = {}

\* C21: the optimizer phase passes over a group without a positive or without
\* a negative example: no error, no change of the parameters; and the refresh
\* of a cycle in which every group was passed over publishes the rows the
\* table had before the cycle.
C21_SkippedGroupsChangeNothing ==
    [][/\ (lpc = "L154" /\ li \in 1..Len(group_embeddings) /\ Skipped(li)) =>
            (params' = params /\ lpc' \in {"L154", "L155"})
       /\ (/\ lpc = "L155" /\ lpc' = "L148"
           /\ Len(group_embeddings) > 0
           /\ \A j \in 1..Len(group_embeddings) : Skipped(j)) =>
            TableVecs(embeddings') = TableVecs(embeddings)]_vars

\* ------------------------------------------------------------ claim C22
\* what the searches return with use_embedding off (lines 43-44, 57-58)
base_search_by_text(valid, text, k) ==
    topk(similarity(encodings, valid, encode_text(text)), Min(k, Cardinality(valid)))
base_search_by_image(valid, image, k) ==
    topk(similarity(encodings, valid, encode_image(image)), k)

\* C22: while no optimizer step has changed the parameters, the published
\* refined table equals the frozen one, whatever the centers are and however
\* often the loop has rebuilt and refreshed, and a search that uses the
\* refined table returns a list the search without it returns.
C22_IdentityUntilTrained ==
    [][/\ params = "identity" => TableVecs(embeddings) = encodings
       /\ params' = "identity" => TableVecs(embeddings') = encodings'
       /\ (result' # result /\ use_embedding /\ params = "identity") =>
            /\ result'.op = "search_by_text" =>
                   result'.ids \in base_search_by_text(result'.valid, result'.text, result'.k)
            /\ result'.op = "search_by_image" =>
                   result'.ids \in base_search_by_image(result'.valid, result'.image, result'.k)]_vars

\* a search with the refined table, made while the parameters are the initial
\* ones, the center list is not empty and the loop has refreshed the table
C22_Witness ==
    /\ result.op \in {"search_by_text", "search_by_image"}
    /\ Len(result.ids) > 0
    /\ use_embedding
    /\ params = "identity"
    /\ center # <<>>
    /\ embeddings[0].ep = 1

\* ------------------------------------------------------ claims C23, C24
\* the gate a row gets from its own largest cosine similarity to the centers
RowGate(cen, v) == weight(cen, {v})

\* C23: in the refresh of the whole table the gate of a row comes from that
\* row's own largest cosine similarity to the centers: a row that is not close
\* to any center (its own gate is at most exp(-10)) is published unchanged,
\* whichever other rows the table holds.  (Stated for finite parameters.)
C23_GateIsPerRow ==
    [][(lpc = "L155" /\ lpc' = "L148" /\ params # "nan") =>
        \A i \in Items :
            RowGate(center, encodings[i]) < 3 => embeddings'[i].v = encodings[i]]_vars

\* update_data, lines 381-383: the positive examples of the groups are the
\* centers of the image domain, the encoded names those of the text domain
ImageCenters(cen) == UNION {cen[j] : j \in {c \in 1..Len(cen) : c % 2 = 1}}
TextCenters(cen) == UNION {cen[j] : j \in {c \in 1..Len(cen) : c % 2 = 0}}

\* C24: the gate of an embedding is exactly 0 when its domain has no center:
\* of the rows of the table when no group has a positive example, of an
\* encoded text when no group name is registered.
C24_NoCenterNoGate ==
    /\ ImageCenters(center) = {} => \A i \in Items : weight(center, {encodings[i]}) = 0
    /\ TextCenters(center) = {} => \A text \in Texts : weight(center, {encode_text(text)}) = 0

\* ------------------------------------------------------------- claim C26
\* the lines of update_latent and of the calls it makes, in program order:
\* line 148 goes to the rebuild (149, 150, 151, 75/76 per group, 79, 80) when
\* the flag is set and to the optimizer otherwise; the rebuild ends in the
\* optimizer (154), the optimizer in the refresh (155), the refresh in the
\* next cycle (148).  A line that raises ends the thread.
LoopOrder(from, to, dirty) ==
    CASE from = "L148" -> to = (IF dirty THEN "L149" ELSE "L154")
      [] from = "L149" -> to = "L150"
      [] from = "L150" -> to = "L151"
      [] from = "L151" -> to = "L75"
      [] from = "L75" -> to \in {"L76", "L79"}
      [] from = "L76" -> to \in {"L75", "IndexError"}
      [] from = "L79" -> to = "L80"
      [] from = "L80" -> to = "L154"
      [] from = "L154" -> to \in {"L155", "OptimizerError"}
      [] from = "L155" -> to = "L148"
      [] OTHER -> FALSE

\* C26: in every cycle of the loop the steps come in this order: the rebuild
\* of the group tuples and centers, run only if the flag is set and clearing
\* it; then the optimizer, which visits the groups in order and steps for
\* exactly those with a positive and a negative example; then one refresh of
\* the whole table.  No step other than the rebuild clears the flag.
C26_CycleOrder ==
    [][/\ lpc' # lpc => LoopOrder(lpc, lpc', data_changed)
       /\ (data_changed /\ ~data_changed') => (lpc = "L80" /\ lpc' = "L154")
       /\ (lpc = "L80" /\ lpc' # lpc) => ~data_changed'
       /\ center' # center => (lpc = "L79" /\ lpc' = "L80")
       /\ (lpc = "L154" /\ li' # li) => (li' = li + 1 \/ lpc' = "L155")
       /\ (lpc = "L154" /\ lpc' = "L155") => li = Len(group_embeddings) + 1
       /\ params' # params => (lpc = "L154" /\ lpc' = "L154" /\ ~Skipped(li))
       /\ (lpc = "L154" /\ li' = li + 1 /\ params = "identity" /\ ~Skipped(li)) =>
               params' # params
       /\ (lpc = "L155" /\ lpc' # lpc) => embeddings'[0].ep = NextEp(embeddings)
       /\ embeddings' # embeddings => (lpc = "L155" /\ lpc' = "L148")]_vars

\* a cycle with a rebuild, an optimizer step and a refresh has completed, and
\* the next cycle has gone straight to the optimizer
C26_Witness ==
    /\ lpc = "L154" /\ ~data_changed
    /\ params = "trained" /\ embeddings[0].ep = 1
    /\ Len(group_embeddings) > 0 /\ center # <<>>

\* ------------------------------------------------------------- claim C27
\* the slots that end in CanvasScene.updateGroups
UpdateGroupsOps == {"addImage", "removeImage", "itemMoved", "addGroup", "removeGroup"}

\* C27: after updateGroups has run, every group on the canvas has as its
\* positive row exactly the images inside it and as its negative row exactly
\* the other images on the canvas (those inside other groups included, those
\* in the box not), and the flag is set.
C27_UpdateGroupsWritesContents ==
    (last.op \in UpdateGroupsOps /\ last.err = "") =>
        /\ data_changed
        /\ \A g \in scene.groups :
            /\ Registered(groups, g)
            /\ IndexOf(groups, g) + 1 <= Len(positive)
            /\ IndexOf(groups, g) + 1 <= Len(negative)
            /\ positive[IndexOf(groups, g) + 1].val = getContent(scene, g) \cap Items
            /\ negative[IndexOf(groups, g) + 1].val =
                   (getImages(scene) \ getContent(scene, g)) \cap Items

\* ------------------------------------------------------------- claim C28
\* C28: after every completed call of create_group, remove_group, updateGroup,
\* reset or deserialize, each label tensor has one row per registered group
\* and the canvas row: the group at list position p owns row p + 1, and that
\* row exists.
C28_OneRowPerGroup ==
    (last.err = "" /\ last.op \in {"create_group", "remove_group", "updateGroup",
                                   "reset", "deserialize", "restore"}) =>
        /\ Len(positive) = Len(groups) + 1
        /\ Len(negative) = Len(groups) + 1

\* ------------------------------------------------------------- claim C29
\* C29: after every completed action of the user (add an image, remove it to
\* the box, put it back, drop it on the search bar, add or remove a group,
\* load), every item in a user group's positive or negative row is positive
\* in row 0; an item made neutral or negative in row 0 is in no group's row.
C29_GroupRowsWithinCanvasRow ==
    (last.err = "" /\ last.op \in {"addImage", "removeImage", "putBack", "dropOnSearchBar",
                                   "addGroup", "removeGroup", "load"}) =>
        /\ \A q \in 2..Len(positive) : positive[q].val \subseteq positive[1].val
        /\ \A q \in 2..Len(negative) : negative[q].val \subseteq positive[1].val

\* ------------------------------------------------------------- claim C30
\* C30: a search with use_embedding on compares the query with a table made
\* by the parameters and the center list that refine the query: at the moment
\* of the search the published table is the one the present parameters and
\* centers give, under every interleaving with the loop.
C30_QueryAndTableSameModel ==
    [][(/\ result' # result
        /\ result'.op \in {"search_by_text", "search_by_image"}
        /\ use_embedding /\ params # "nan") =>
            TableVecs(embeddings) = refine_image_embedding(params, center, encodings)]_vars

====
